---- MODULE Spec2Model ----
(***************************************************************************)
(* Model of nengo_loihi/hardware/allocators.py: the three block allocators *)
(* (Greedy, RoundRobin, GreedyComms), the traffic estimator                *)
(* compute_block_conns and the configuration deduplicators compute_cfgs    *)
(* and core_stdp_pre_cfgs.                                                 *)
(*                                                                         *)
(* Block indices are the keys of block_map (0-based, as enumerate gives    *)
(* them); chips are numbered from 0, chip c being board.chips[c + 1] here. *)
(* A weight of block_conns is a float64; it is kept as a pair <<n, e>>     *)
(* standing for n + e * 1e-16 with n, e naturals, and float addition       *)
(* absorbs the 1e-16 part as soon as n >= 1.                               *)
(***************************************************************************)
EXTENDS Integers, Sequences, FiniteSets, TLC

VARIABLES strategy, n_chips, cores_per_chip, block_rates, model, board, pc,
          error, i, block_conns, no_pre_blocks, chip, chip_blocks,
          unallocated_blocks,
          core, cfgs, cfg_idxs, prev_cfgs, prev_cfg_idxs

\* the state of an allocator call (and of a call of compute_block_conns)
allocVars == <<strategy, n_chips, cores_per_chip, block_rates, model, board, pc,
               error, i, block_conns, no_pre_blocks, chip, chip_blocks,
               unallocated_blocks>>

\* the state of a deduplicator call: the core, the result, the result before
cfgVars == <<core, cfgs, cfg_idxs, prev_cfgs, prev_cfg_idxs>>

vars == <<allocVars, cfgVars>>

(* ------------------------------ bounds --------------------------------- *)
MaxBlocks == 3
MaxChips == 3
MaxCoresPerChip == 2
MaxInputs == 1
BigBlocks == 129

(* ------------------------- program constants --------------------------- *)
MAX_COMPARTMENTS == 1024
HW_MAX_CORES == 128
None == "None"
\* an optional value that is no string: <<>> for None, <<v>> for v
Nothing == <<>>
Some(v) == <<v>>
Val(o) == o[1]

(* --------------------------- float weights ----------------------------- *)
Zero == <<0, 0>>
Epsilon == <<0, 1>>

\* w + n in float64, for a weight w that is 1e-16 or a whole number and a
\* whole number n >= 0: below 2^53 the sum is exact, but for 1e-16 + n with
\* n >= 1, which rounds to n (1e-16 is less than half an ulp of 1.0)
FAdd(w, n) ==
    IF w[1] + n >= 1 THEN <<w[1] + n, 0>> ELSE w

FGreater(w, x) == w[1] > x[1] \/ (w[1] = x[1] /\ w[2] > x[2])

FMax(w, x) == IF FGreater(x, w) THEN x ELSE w

\* dict.get(key, 0)
Get(dict, key) == IF key \in DOMAIN dict THEN dict[key] ELSE Zero

(* ----------------------------- the model ------------------------------- *)
NBlocks == Len(model.blocks)
BlockIdxs == 0 .. NBlocks - 1
Block(k) == model.blocks[k + 1]

Range(s) == {s[x] : x \in DOMAIN s}

(* -------------------- compute_block_conns (l. 239-272) ------------------ *)
\* lines 243-247: the synapse ids claimed by the blocks of block_map, one
\* pair <<i, position>> per claim
SynapseClaims(block_map) ==
    UNION {{<<k, p>> : p \in DOMAIN block_map[k].synapses} : k \in DOMAIN block_map}

\* line 246: the assertion fails when a synapse is claimed twice
DuplicateSynapse(block_map) ==
    \E c1, c2 \in SynapseClaims(block_map) :
        /\ c1 # c2
        /\ block_map[c1[1]].synapses[c1[2]] = block_map[c2[1]].synapses[c2[2]]

\* line 247: synapse id -> index of the block that owns it
SynapseBlockMap(block_map) ==
    LET ids == UNION {Range(block_map[k].synapses) : k \in DOMAIN block_map}
    IN [s \in ids |-> CHOOSE k \in DOMAIN block_map : s \in Range(block_map[k].synapses)]

\* lines 266-270: rates[axon_ids >= 0].sum(); the rate data modelled are the
\* all-zero arrays, whose sum over any selection of compartments is 0.0
RateSum(rates, k, axon) == 0

\* a slip: the default of a new entry is 0
SetDefaultZero(conns_i, j) ==
    IF j \in DOMAIN conns_i THEN conns_i
    ELSE [x \in DOMAIN conns_i \cup {j} |-> IF x = j THEN Zero ELSE conns_i[x]]

\* line 259: block_conns[i].setdefault(j, 1e-16)
SetDefault(conns_i, j) ==
    IF j \in DOMAIN conns_i THEN conns_i
    ELSE [x \in DOMAIN conns_i \cup {j} |-> IF x = j THEN Epsilon ELSE conns_i[x]]

\* a slip: every axon counts for one
AxonWeightCountingAxons(rates, k, axon) == 1

\* lines 261-270: the weight one axon adds
AxonWeight(rates, k, axon) ==
    IF rates = Nothing THEN axon.n_axons
    ELSE RateSum(Val(rates), k, axon)

\* lines 250-270 for block k, from axon number p on; r = [err, conns]
RECURSIVE AxonLoop(_, _, _, _, _, _)
AxonLoop(block_map, rates, sbm, k, p, r) ==
    IF r.err # None \/ p > Len(block_map[k].axons) THEN r
    ELSE LET axon == block_map[k].axons[p]
         IN IF axon.target \notin DOMAIN sbm
            THEN [r EXCEPT !.err = "KeyError"]
            ELSE LET j == sbm[axon.target]
                 IN IF k = j
                    THEN AxonLoop(block_map, rates, sbm, k, p + 1, r)
                    ELSE IF rates # Nothing /\ k \notin DOMAIN Val(rates)
                    THEN [r EXCEPT !.err = "KeyError"]
                    ELSE LET d == SetDefault(r.conns, j)
                             w == FAdd(d[j], AxonWeight(rates, k, axon))
                         IN AxonLoop(block_map, rates, sbm, k, p + 1,
                                     [r EXCEPT !.conns = [d EXCEPT ![j] = w]])

EmptyDict == [x \in {} |-> Zero]

\* the whole function: [err |-> None, conns |-> i -> {j: weight}], or the
\* error raised (the first one in ascending order of the keys)
ComputeBlockConns(block_map, rates) ==
    IF DuplicateSynapse(block_map) THEN [err |-> "AssertionError", conns |-> EmptyDict]
    ELSE LET sbm == SynapseBlockMap(block_map)
             per == [k \in DOMAIN block_map |->
                       AxonLoop(block_map, rates, sbm, k, 1,
                                [err |-> None, conns |-> EmptyDict])]
         IN IF \E k \in DOMAIN block_map : per[k].err # None
            THEN [err |-> "KeyError", conns |-> EmptyDict]
            ELSE [err |-> None, conns |-> [k \in DOMAIN block_map |-> per[k].conns]]

(* ----------------- Allocator.block_to_new_core (l. 91-123) -------------- *)
NewChip == <<>>

\* a slip: the block joins the last core of the chip when the chip has one
BlockToNewCoreReusingCore(b, block_idx, c) ==
    IF Block(block_idx).n_compartments > MAX_COMPARTMENTS
    THEN [err |-> "ValidationError", board |-> b]
    ELSE [err |-> None,
          board |-> [b EXCEPT !.chips[c + 1] =
                        IF Len(@) = 0
                        THEN <<[blocks |-> <<block_idx>>,
                                synapses |-> Block(block_idx).synapses]>>
                        ELSE [@ EXCEPT ![Len(@)].blocks = Append(@, block_idx)]]]

\* chip.new_core() and core.add_block(block) on chip number c (from 0); the
\* config lists the core then receives are those of the deduplicators below
\* and have no part in the placement
BlockToNewCore(b, block_idx, c) ==
    IF Block(block_idx).n_compartments > MAX_COMPARTMENTS
    THEN [err |-> "ValidationError", board |-> b]
    ELSE [err |-> None,
          board |-> [b EXCEPT !.chips[c + 1] =
                        Append(@, [blocks |-> <<block_idx>>,
                                   synapses |-> Block(block_idx).synapses])]]

\* input_to_board for every input of the model (l. 125-135, 173-175)
InputsToBoard(b) == [b EXCEPT !.inputs = @ + model.inputs]

EmptyBoard == [chips |-> <<>>, inputs |-> 0, probes |-> 0]

Fail(e, b) ==
    /\ pc' = "failed"
    /\ error' = e
    /\ board' = b

(* ----------------------- Greedy.__call__ (l. 157-185) ------------------- *)
\* lines 158-175: the board with its first chip, then the inputs
GreedyStart ==
    /\ pc = "start" /\ strategy = "Greedy"
    /\ board' = InputsToBoard([EmptyBoard EXCEPT !.chips = <<NewChip>>])
    /\ i' = model.inputs
    /\ pc' = "blocks"
    /\ UNCHANGED cfgVars
    /\ UNCHANGED <<strategy, n_chips, cores_per_chip, block_rates, model, error, block_conns,
                   no_pre_blocks, chip, chip_blocks, unallocated_blocks>>

\* a slip: the chip counts as full one core early
GreedyGetChipOffByOne(b) ==
    LET last == Len(b.chips)
    IN IF ~(Len(b.chips[last]) <= cores_per_chip)
       THEN [err |-> "AssertionError", board |-> b, chip |-> last - 1]
       ELSE IF Len(b.chips[last]) + 1 = cores_per_chip
       THEN IF ~(Len(b.chips) < n_chips)
            THEN [err |-> "ChipBudget", board |-> b, chip |-> last - 1]
            ELSE [err |-> None, board |-> [b EXCEPT !.chips = Append(@, NewChip)],
                  chip |-> last]
       ELSE [err |-> None, board |-> b, chip |-> last - 1]

\* get_chip (l. 161-170): [err, board, chip], chip the number of the chip
GreedyGetChip(b) ==
    LET last == Len(b.chips)
    IN IF ~(Len(b.chips[last]) <= cores_per_chip)
       THEN [err |-> "AssertionError", board |-> b, chip |-> last - 1]
       ELSE IF Len(b.chips[last]) = cores_per_chip
       THEN IF ~(Len(b.chips) < n_chips)
            THEN [err |-> "ChipBudget", board |-> b, chip |-> last - 1]
            ELSE [err |-> None, board |-> [b EXCEPT !.chips = Append(@, NewChip)],
                  chip |-> last]
       ELSE [err |-> None, board |-> b, chip |-> last - 1]

\* one turn of the loop of lines 177-179
GreedyBlock ==
    /\ pc = "blocks" /\ strategy = "Greedy"
    /\ i - model.inputs < NBlocks
    /\ LET g == GreedyGetChip(board)
           r == BlockToNewCore(g.board, i - model.inputs, g.chip)
       IN IF g.err # None THEN Fail(g.err, g.board) /\ i' = i
          ELSE IF r.err # None THEN Fail(r.err, r.board) /\ i' = i
          ELSE /\ board' = r.board
               /\ i' = i + 1
               /\ UNCHANGED <<pc, error>>
    /\ UNCHANGED cfgVars
    /\ UNCHANGED <<strategy, n_chips, cores_per_chip, block_rates, model, block_conns,
                   no_pre_blocks, chip, chip_blocks, unallocated_blocks>>

\* lines 181-185: the probes, and the board is returned
GreedyReturn ==
    /\ pc = "blocks" /\ strategy = "Greedy"
    /\ i - model.inputs = NBlocks
    /\ board' = [board EXCEPT !.probes = @ + model.probes]
    /\ pc' = "done"
    /\ UNCHANGED cfgVars
    /\ UNCHANGED <<strategy, n_chips, cores_per_chip, block_rates, model, error, i, block_conns,
                   no_pre_blocks, chip, chip_blocks, unallocated_blocks>>

(* --------------------- RoundRobin.__call__ (l. 194-217) ----------------- *)
\* lines 195-208
RoundRobinStart ==
    /\ pc = "start" /\ strategy = "RoundRobin"
    /\ board' = InputsToBoard(EmptyBoard)
    /\ i' = 0
    /\ pc' = "blocks"
    /\ UNCHANGED cfgVars
    /\ UNCHANGED <<strategy, n_chips, cores_per_chip, block_rates, model, error, block_conns,
                   no_pre_blocks, chip, chip_blocks, unallocated_blocks>>

\* a slip: the inputs take slots of the rotation
RoundRobinGetChipCountingInputs(b, t) ==
    LET u == t + model.inputs
        b1 == IF Len(b.chips) <= u /\ u < n_chips
              THEN [b EXCEPT !.chips = Append(@, NewChip)] ELSE b
    IN IF n_chips = 0
       THEN [err |-> "ZeroDivisionError", board |-> b1, chip |-> 0]
       ELSE IF ~(u % n_chips < Len(b1.chips))
       THEN [err |-> "IndexError", board |-> b1, chip |-> 0]
       ELSE [err |-> None, board |-> b1, chip |-> u % n_chips]

\* get_chip (l. 200-203)
RoundRobinGetChip(b, t) ==
    LET b1 == IF Len(b.chips) <= t /\ t < n_chips
              THEN [b EXCEPT !.chips = Append(@, NewChip)] ELSE b
    IN IF n_chips = 0
       THEN [err |-> "ZeroDivisionError", board |-> b1, chip |-> 0]
       ELSE IF ~(t % n_chips < Len(b1.chips))
       THEN [err |-> "IndexError", board |-> b1, chip |-> 0]
       ELSE [err |-> None, board |-> b1, chip |-> t % n_chips]

\* one turn of the loop of lines 209-211
RoundRobinBlock ==
    /\ pc = "blocks" /\ strategy = "RoundRobin"
    /\ i < NBlocks
    /\ LET g == RoundRobinGetChip(board, i)
           r == BlockToNewCore(g.board, i, g.chip)
       IN IF g.err # None THEN Fail(g.err, g.board) /\ i' = i
          ELSE IF r.err # None THEN Fail(r.err, r.board) /\ i' = i
          ELSE /\ board' = r.board
               /\ i' = i + 1
               /\ UNCHANGED <<pc, error>>
    /\ UNCHANGED cfgVars
    /\ UNCHANGED <<strategy, n_chips, cores_per_chip, block_rates, model, block_conns,
                   no_pre_blocks, chip, chip_blocks, unallocated_blocks>>

\* lines 213-217
RoundRobinReturn ==
    /\ pc = "blocks" /\ strategy = "RoundRobin"
    /\ i = NBlocks
    /\ board' = [board EXCEPT !.probes = @ + model.probes]
    /\ pc' = "done"
    /\ UNCHANGED cfgVars
    /\ UNCHANGED <<strategy, n_chips, cores_per_chip, block_rates, model, error, i, block_conns,
                   no_pre_blocks, chip, chip_blocks, unallocated_blocks>>

(* --------------------- GreedyComms.__call__ (l. 322-391) ---------------- *)
\* line 323
BlockMap == [k \in BlockIdxs |-> Block(k)]

\* line 329: sum(block_conns[i].get(j, 0) for i in block_map) == 0; the
\* terms are floats >= 0, whose sum is 0 exactly when each of them is 0
SumIsZero(conns, j) == \A k \in DOMAIN conns : Get(conns[k], j) = Zero

\* lines 327-330: the blocks nothing sends to, in ascending order
NoPreBlocks(conns) ==
    LET S == {j \in DOMAIN conns : SumIsZero(conns, j)}
    IN [p \in 1 .. Cardinality(S) |->
          CHOOSE j \in S : Cardinality({x \in S : x < j}) = p - 1]

\* lines 323-341
GreedyCommsStart ==
    /\ pc = "start" /\ strategy = "GreedyComms"
    /\ LET r == ComputeBlockConns(BlockMap, block_rates)
       IN IF r.err # None
          THEN /\ Fail(r.err, board)
               /\ UNCHANGED <<block_conns, no_pre_blocks, unallocated_blocks>>
          ELSE /\ block_conns' = r.conns
               /\ no_pre_blocks' = NoPreBlocks(r.conns)
               /\ board' = InputsToBoard(EmptyBoard)
               /\ unallocated_blocks' = BlockIdxs
               /\ pc' = "blocks"
               /\ error' = error
    /\ chip' = Nothing
    /\ UNCHANGED cfgVars
    /\ UNCHANGED <<strategy, n_chips, cores_per_chip, block_rates, model, i,
                   chip_blocks>>

\* lines 353-357 and 374-378: the first no-pre block still unallocated, else
\* whichever block the iteration over the set gives first
SeedChoices(no_pre, unallocated) ==
    LET ps == {p \in DOMAIN no_pre : no_pre[p] \in unallocated}
    IN IF ps # {}
       THEN {no_pre[CHOOSE p \in ps : \A q \in ps : p <= q]}
       ELSE unallocated

\* a slip: only the traffic from the chip's block to the candidate counts
MaxIJForwardOnly(conns, a, j) == Get(conns[a], j)

\* line 366
MaxIJ(conns, a, j) == FMax(Get(conns[a], j), Get(conns[j], a))

\* lines 362-369: the blocks the search can end on, {} when it ends on -1.
\* max_conn only grows, so the search ends on the first pair, in iteration
\* order, that reaches the largest value; chip_blocks is walked in order and
\* the order of the walk over the unallocated set is not fixed
MaxConnChoices(conns, on_chip, unallocated) ==
    LET vals == {MaxIJ(conns, on_chip[p], j) : p \in DOMAIN on_chip, j \in unallocated}
        best == IF vals = {} THEN Zero
                ELSE CHOOSE v \in vals : \A w \in vals : ~FGreater(w, v)
        hits == {p \in DOMAIN on_chip :
                    \E j \in unallocated : MaxIJ(conns, on_chip[p], j) = best}
        first == CHOOSE p \in hits : \A q \in hits : p <= q
    IN IF ~FGreater(best, Zero) THEN {}
       ELSE {j \in unallocated : MaxIJ(conns, on_chip[first], j) = best}

\* one turn of the loop of lines 343-384
GreedyCommsBlock ==
    /\ pc = "blocks" /\ strategy = "GreedyComms"
    /\ Cardinality(unallocated_blocks) > 0
    /\ IF chip = Nothing \/ Len(board.chips[Val(chip) + 1]) = cores_per_chip
       THEN IF ~(Len(board.chips) < n_chips)
            THEN /\ Fail("ChipBudget", board)
                 /\ UNCHANGED <<chip, chip_blocks, unallocated_blocks>>
            ELSE \E block_idx \in SeedChoices(no_pre_blocks, unallocated_blocks) :
                   LET c == Len(board.chips)
                       r == BlockToNewCore([board EXCEPT !.chips = Append(@, NewChip)],
                                           block_idx, c)
                   IN /\ chip' = Some(c)
                      /\ IF r.err # None
                         THEN /\ Fail(r.err, r.board)
                              /\ chip_blocks' = <<>>
                              /\ UNCHANGED unallocated_blocks
                         ELSE /\ board' = r.board
                              /\ chip_blocks' = <<block_idx>>
                              /\ unallocated_blocks' = unallocated_blocks \ {block_idx}
                              /\ UNCHANGED <<pc, error>>
       ELSE LET found == MaxConnChoices(block_conns, chip_blocks, unallocated_blocks)
                cands == IF found # {} THEN found
                         ELSE SeedChoices(no_pre_blocks, unallocated_blocks)
            IN \E block_idx \in cands :
                 LET r == BlockToNewCore(board, block_idx, Val(chip))
                 IN /\ chip' = chip
                    /\ IF r.err # None
                       THEN /\ Fail(r.err, r.board)
                            /\ UNCHANGED <<chip_blocks, unallocated_blocks>>
                       ELSE /\ board' = r.board
                            /\ chip_blocks' = Append(chip_blocks, block_idx)
                            /\ unallocated_blocks' = unallocated_blocks \ {block_idx}
                            /\ UNCHANGED <<pc, error>>
    /\ UNCHANGED cfgVars
    /\ UNCHANGED <<strategy, n_chips, cores_per_chip, block_rates, model, i,
                   block_conns, no_pre_blocks>>

\* lines 386-391
GreedyCommsReturn ==
    /\ pc = "blocks" /\ strategy = "GreedyComms"
    /\ Cardinality(unallocated_blocks) = 0
    /\ board' = [board EXCEPT !.probes = @ + model.probes]
    /\ pc' = "done"
    /\ UNCHANGED cfgVars
    /\ UNCHANGED <<strategy, n_chips, cores_per_chip, block_rates, model, error,
                   i, block_conns, no_pre_blocks, chip, chip_blocks,
                   unallocated_blocks>>

(* ------------------------------ the inputs ------------------------------ *)
\* the synapse a block owns: block k owns the one synapse numbered 100 + k
SynId(k) == 100 + k

\* what joins two blocks a < b: nothing, one axon of n_axons = 5 from a to b
\* ("fwd"), or one axon of n_axons = 0 from b to a ("bwd")
Links == {[dir |-> "none", n |-> 0], [dir |-> "fwd", n |-> 5],
          [dir |-> "bwd", n |-> 0]}

Pairs(B) == {pr \in (0 .. B - 1) \X (0 .. B - 1) : pr[1] < pr[2]}

Sends(g, k, j) ==
    \/ k < j /\ g[<<k, j>>].dir = "fwd"
    \/ j < k /\ g[<<j, k>>].dir = "bwd"

LinkOf(g, k, j) == IF k < j THEN g[<<k, j>>] ELSE g[<<j, k>>]

\* the axons of block k under the links g, to the blocks j, j + 1, ..., B - 1
RECURSIVE AxonSeq(_, _, _, _)
AxonSeq(g, k, j, B) ==
    IF j >= B THEN <<>>
    ELSE (IF k # j /\ Sends(g, k, j)
          THEN <<[target |-> SynId(j), n_axons |-> LinkOf(g, k, j).n]>>
          ELSE <<>>) \o AxonSeq(g, k, j + 1, B)

\* B blocks, block number `big` (none when big = B) one compartment too large
BlocksOf(B, big, g) ==
    [p \in 1 .. B |->
        [n_compartments |-> IF p - 1 = big THEN MAX_COMPARTMENTS + 1
                            ELSE MAX_COMPARTMENTS,
         synapses |-> <<SynId(p - 1)>>,
         axons |-> AxonSeq(g, p - 1, 0, B)]]

NoLinks(B) == [pr \in Pairs(B) |-> [dir |-> "none", n |-> 0]]

Strategies == {"Greedy", "RoundRobin", "GreedyComms"}

\* cores_per_chip: Greedy.__init__ (l. 151-155) accepts every value up to 128;
\* RoundRobin has no such parameter and the hardware maximum stands for it
CoresPerChipValues(s) ==
    IF s = "RoundRobin" THEN {HW_MAX_CORES}
    ELSE (0 .. MaxCoresPerChip) \cup {HW_MAX_CORES}

ZeroRates(B) == [k \in 0 .. B - 1 |-> "zeros"]

\* The models drawn: (1) up to MaxBlocks unconnected blocks, at most one of
\* them too large, with up to MaxInputs inputs, for every strategy; (2) for
\* GreedyComms, linked blocks, without rate data or with all-zero rates;
\* (3) BigBlocks
\* unconnected blocks of one compartment, more than one chip can hold
InitAlloc ==
    /\ strategy \in Strategies
    /\ n_chips \in 0 .. MaxChips
    /\ cores_per_chip \in CoresPerChipValues(strategy)
    /\ \/ \E B \in 0 .. MaxBlocks, n \in 0 .. MaxInputs :
            \E big \in 0 .. B :
                /\ model = [inputs |-> n, blocks |-> BlocksOf(B, big, NoLinks(B)),
                            probes |-> 1]
                /\ block_rates = Nothing
       \/ \E B \in 2 .. MaxBlocks :
            \E g \in [Pairs(B) -> Links] \ {NoLinks(B)} :
                /\ strategy = "GreedyComms"
                /\ model = [inputs |-> 0, blocks |-> BlocksOf(B, B, g), probes |-> 1]
                /\ block_rates \in {Nothing, Some(ZeroRates(B))}
       \/ /\ model = [inputs |-> 0,
                      blocks |-> [p \in 1 .. BigBlocks |->
                                    [n_compartments |-> 1, synapses |-> <<SynId(p - 1)>>,
                                     axons |-> <<>>]],
                      probes |-> 1]
          /\ block_rates = Nothing
    /\ board = EmptyBoard
    /\ pc = "start"
    /\ error = None
    /\ i = 0
    /\ block_conns = <<>>
    /\ no_pre_blocks = <<>>
    /\ chip = Nothing
    /\ chip_blocks = <<>>
    /\ unallocated_blocks = {}
    /\ core = [kind |-> "none", blocks |-> <<>>, synapses |-> <<>>]
    /\ cfgs = <<>>
    /\ cfg_idxs = <<>>
    /\ prev_cfgs = <<>>
    /\ prev_cfg_idxs = <<>>

Next ==
    \/ GreedyStart \/ GreedyBlock \/ GreedyReturn
    \/ RoundRobinStart \/ RoundRobinBlock \/ RoundRobinReturn
    \/ GreedyCommsStart \/ GreedyCommsBlock \/ GreedyCommsReturn

Spec == InitAlloc /\ [][Next]_vars

(* ------------------ compute_cfgs, core_*_cfgs (l. 18-85) ---------------- *)
\* list_compartment_cfgs (l. 36-48): one CompartmentConfig per compartment
ListCompartmentCfgs(block) ==
    [p \in 1 .. block.compartment.n_compartments |->
        [decay_u |-> block.compartment.decay_u[p],
         decay_v |-> block.compartment.decay_v[p],
         refract_delay |-> block.compartment.refract_delay[p],
         enable_noise |-> block.compartment.enable_noise[p]]]

\* lines 19-21
CfgLists(c) == [b \in DOMAIN c.blocks |-> ListCompartmentCfgs(c.blocks[b])]

\* the orders in which a list can hold the members of the set S once each
OrdersOf(S) ==
    {f \in [1 .. Cardinality(S) -> S] : \A x, y \in DOMAIN f : x # y => f[x] # f[y]}

\* a slip: list(p for plist in cfg_lists for p in plist), the set() left out;
\* for at most two blocks
CfgOrdersNoSet(cfg_lists) ==
    {IF Len(cfg_lists) = 0 THEN <<>>
     ELSE IF Len(cfg_lists) = 1 THEN cfg_lists[1]
     ELSE cfg_lists[1] \o cfg_lists[2]}

\* line 23: list(set(p for plist in cfg_lists for p in plist)); the order in
\* which a set is walked is not fixed, so every order is a possible list
CfgOrders(cfg_lists) ==
    OrdersOf(UNION {Range(cfg_lists[b]) : b \in DOMAIN cfg_lists})

\* lines 26-28: the array starts as zeros, and entry n becomes k for each
\* k, in ascending order, with plist[n] == cfgs[k] (k counted from 0)
CfgIdxsOf(cs, plist) ==
    [n \in DOMAIN plist |->
        LET ks == {k \in 0 .. Len(cs) - 1 : plist[n] = cs[k + 1]}
        IN IF ks = {} THEN 0 ELSE CHOOSE k \in ks : \A x \in ks : x <= k]

\* core_compartment_cfgs (l. 33-50, with compute_cfgs l. 18-30), run on the
\* core once and once again
CoreCompartmentCfgs ==
    /\ pc \in {"cfg_start", "cfg_once"}
    /\ core.kind = "compartment"
    /\ \E cs \in CfgOrders(CfgLists(core)) :
          /\ cfgs' = cs
          /\ cfg_idxs' = [b \in DOMAIN core.blocks |-> CfgIdxsOf(cs, CfgLists(core)[b])]
    /\ prev_cfgs' = cfgs
    /\ prev_cfg_idxs' = cfg_idxs
    /\ pc' = IF pc = "cfg_start" THEN "cfg_once" ELSE "cfg_twice"
    /\ UNCHANGED <<strategy, n_chips, cores_per_chip, block_rates, model, board,
                   error, i, block_conns, no_pre_blocks, chip, chip_blocks,
                   unallocated_blocks, core>>

\* tracing_mag_int_frac of builder/discretize.py: the magnitude, here in
\* 256ths, split into its whole part and its fraction in 128ths, cut off
TracingMagIntFrac(mag) == <<mag \div 256, (mag % 256) \div 2>>

\* lines 72-75
TraceConfigOf(synapse) ==
    [tau |-> synapse.tracing_tau,
     spike_int |-> TracingMagIntFrac(synapse.tracing_mag)[1],
     spike_frac |-> TracingMagIntFrac(synapse.tracing_mag)[2]]

\* cfgs.index(cfg) (l. 78), counted from 0
IndexOf(cs, cfg) ==
    (CHOOSE p \in DOMAIN cs : cs[p] = cfg /\ \A q \in DOMAIN cs : cs[q] = cfg => p <= q) - 1

\* lines 70-83 from synapse number p on; r = [cfgs, idxs], idxs[q] the slot
\* of synapse q, Nothing for None
RECURSIVE StdpLoop(_, _, _)
StdpLoop(synapses, p, r) ==
    IF p > Len(synapses) THEN r
    ELSE IF synapses[p].learning
    THEN LET tracecfg == TraceConfigOf(synapses[p])
         IN IF tracecfg \in Range(r.cfgs)
            THEN StdpLoop(synapses, p + 1,
                          [r EXCEPT !.idxs = Append(@, Some(IndexOf(r.cfgs, tracecfg)))])
            ELSE StdpLoop(synapses, p + 1,
                          [cfgs |-> Append(r.cfgs, tracecfg),
                           idxs |-> Append(r.idxs, Some(Len(r.cfgs)))])
    ELSE StdpLoop(synapses, p + 1, [r EXCEPT !.idxs = Append(@, Nothing)])

\* core_stdp_pre_cfgs (l. 67-85), run on the core once and once again
CoreStdpPreCfgs ==
    /\ pc \in {"cfg_start", "cfg_once"}
    /\ core.kind = "stdp_pre"
    /\ LET r == StdpLoop(core.synapses, 1, [cfgs |-> <<>>, idxs |-> <<>>])
       IN /\ cfgs' = r.cfgs
          /\ cfg_idxs' = r.idxs
    /\ prev_cfgs' = cfgs
    /\ prev_cfg_idxs' = cfg_idxs
    /\ pc' = IF pc = "cfg_start" THEN "cfg_once" ELSE "cfg_twice"
    /\ UNCHANGED <<strategy, n_chips, cores_per_chip, block_rates, model, board,
                   error, i, block_conns, no_pre_blocks, chip, chip_blocks,
                   unallocated_blocks, core>>

(* ------------------------- the cores deduplicated ----------------------- *)
MaxElems == 3

DecayValues == {0, 1}
NoiseValues == {0, 1}

\* the blocks of n compartments
CfgBlocks(n) ==
    {[compartment |-> [n_compartments |-> n, decay_u |-> du,
                       decay_v |-> [p \in 1 .. n |-> 0],
                       refract_delay |-> [p \in 1 .. n |-> 1],
                       enable_noise |-> en]] :
        du \in [1 .. n -> DecayValues], en \in [1 .. n -> NoiseValues]}

\* the synapses: without learning, or with learning and a tau and magnitude;
\* the magnitudes 258/256 and 259/256 have the same whole part and fraction
CfgSynapses ==
    {[learning |-> FALSE, tracing_tau |-> 0, tracing_mag |-> 0]} \cup
    {[learning |-> TRUE, tracing_tau |-> t, tracing_mag |-> m] :
        t \in {1, 2}, m \in {256, 258, 259}}

\* a core of one or two blocks with at most MaxElems compartments in all, or
\* a core with at most MaxElems synapses
InitCfgs ==
    /\ \/ \E n1 \in 0 .. MaxElems : \E b1 \in CfgBlocks(n1) :
             core = [kind |-> "compartment", blocks |-> <<b1>>, synapses |-> <<>>]
       \/ \E n1 \in 0 .. MaxElems : \E n2 \in 0 .. MaxElems - n1 :
             \E b1 \in CfgBlocks(n1), b2 \in CfgBlocks(n2) :
                core = [kind |-> "compartment", blocks |-> <<b1, b2>>, synapses |-> <<>>]
       \/ \E n \in 0 .. MaxElems : \E ss \in [1 .. n -> CfgSynapses] :
             core = [kind |-> "stdp_pre", blocks |-> <<>>, synapses |-> ss]
    /\ cfgs = <<>>
    /\ cfg_idxs = <<>>
    /\ prev_cfgs = <<>>
    /\ prev_cfg_idxs = <<>>
    /\ pc = "cfg_start"
    /\ strategy = "Greedy"
    /\ n_chips = 0
    /\ cores_per_chip = 0
    /\ block_rates = Nothing
    /\ model = [inputs |-> 0, blocks |-> <<>>, probes |-> 0]
    /\ board = EmptyBoard
    /\ error = None
    /\ i = 0
    /\ block_conns = <<>>
    /\ no_pre_blocks = <<>>
    /\ chip = Nothing
    /\ chip_blocks = <<>>
    /\ unallocated_blocks = {}

NextCfgs == CoreCompartmentCfgs \/ CoreStdpPreCfgs

SpecCfgs == InitCfgs /\ [][NextCfgs]_vars


(* ------------------ calls of compute_block_conns alone ------------------ *)
\* lines 239-272 on block_map = the blocks of the model under their indices
ComputeConns ==
    /\ pc = "conns_start"
    /\ LET r == ComputeBlockConns(BlockMap, block_rates)
       IN IF r.err # None
          THEN /\ pc' = "failed"
               /\ error' = r.err
               /\ UNCHANGED block_conns
          ELSE /\ pc' = "conns_done"
               /\ block_conns' = r.conns
               /\ UNCHANGED error
    /\ UNCHANGED cfgVars
    /\ UNCHANGED <<strategy, n_chips, cores_per_chip, block_rates, model, board, i,
                   no_pre_blocks, chip, chip_blocks, unallocated_blocks>>

MaxAxons == 2

\* block k owns the synapses 100 + k and 150 + k; with dup, the last block
\* also claims synapse 100, which block 0 owns
ConnSynapses(k, B, dup) ==
    IF dup /\ k = B - 1 THEN <<SynId(k), SynId(k) + 50, SynId(0)>>
    ELSE <<SynId(k), SynId(k) + 50>>

\* the axons: from block src to the synapse target, n_axons 0 or 5
ConnAxons(B) ==
    {[src |-> k, target |-> t, n_axons |-> n] :
        k \in 0 .. B - 1,
        t \in {SynId(j) : j \in 0 .. B - 1} \cup {SynId(j) + 50 : j \in 0 .. B - 1},
        n \in {0, 5}}

\* the axons of block k among the axons all, in their order, from number p on
RECURSIVE AxonsFrom(_, _, _)
AxonsFrom(all, k, p) ==
    IF p > Len(all) THEN <<>>
    ELSE (IF all[p].src = k
          THEN <<[target |-> all[p].target, n_axons |-> all[p].n_axons]>>
          ELSE <<>>) \o AxonsFrom(all, k, p + 1)

ConnBlocks(B, dup, all) ==
    [p \in 1 .. B |->
        [n_compartments |-> 1,
         synapses |-> ConnSynapses(p - 1, B, dup),
         axons |-> AxonsFrom(all, p - 1, 1)]]

\* up to MaxBlocks blocks of two synapses each and up to MaxAxons axons in
\* all, between any blocks (a block's own synapses included), no rate data
InitConns ==
    /\ \E B \in 1 .. MaxBlocks, len \in 0 .. MaxAxons, dup \in BOOLEAN :
          \E all \in [1 .. len -> ConnAxons(B)] :
              /\ dup => len <= 1
              /\ model = [inputs |-> 0, blocks |-> ConnBlocks(B, dup, all), probes |-> 0]
    /\ block_rates = Nothing
    /\ pc = "conns_start"
    /\ strategy = "GreedyComms"
    /\ n_chips = 0
    /\ cores_per_chip = 0
    /\ board = EmptyBoard
    /\ error = None
    /\ i = 0
    /\ block_conns = <<>>
    /\ no_pre_blocks = <<>>
    /\ chip = Nothing
    /\ chip_blocks = <<>>
    /\ unallocated_blocks = {}
    /\ core = [kind |-> "none", blocks |-> <<>>, synapses |-> <<>>]
    /\ cfgs = <<>>
    /\ cfg_idxs = <<>>
    /\ prev_cfgs = <<>>
    /\ prev_cfg_idxs = <<>>

SpecConns == InitConns /\ [][ComputeConns]_vars

(* ======================= properties of the allocators =================== *)
\* the cores of the board, as <<chip number, position on the chip>>
CoreSlots ==
    UNION {{<<c, q>> : q \in DOMAIN board.chips[c + 1]} : c \in 0 .. Len(board.chips) - 1}

CoreAt(sl) == board.chips[sl[1] + 1][sl[2]]

\* the cores that hold block k
SlotsOf(k) == {sl \in CoreSlots : k \in Range(CoreAt(sl).blocks)}

Oversized(k) == Block(k).n_compartments > MAX_COMPARTMENTS

\* block j is a no-pre block: no other block has an axon whose target is one
\* of the synapses of j
IsNoPre(j) ==
    ~ \E k \in BlockIdxs \ {j} : \E p \in DOMAIN Block(k).axons :
          Block(k).axons[p].target \in Range(Block(j).synapses)

Min2(a, b) == IF a <= b THEN a ELSE b

\* C1: when allocate returns a Board, every block of the model is in exactly
\* one core of the Board, every core holds exactly one block, and the Board
\* has as many cores as the model has blocks (Greedy, RoundRobin, GreedyComms).
C1_EveryBlockOnce ==
    pc = "done" =>
        /\ \A k \in BlockIdxs : Cardinality(SlotsOf(k)) = 1
        /\ \A sl \in CoreSlots : Len(CoreAt(sl).blocks) = 1
        /\ Cardinality(CoreSlots) = NBlocks

C1_Witness ==
    /\ pc = "done"
    /\ NBlocks >= 3
    /\ Len(board.chips) >= 2
    /\ strategy = "GreedyComms"
    /\ \E k \in BlockIdxs : ~IsNoPre(k)

\* C2: under Greedy and GreedyComms the board never has more than n_chips
\* chips, for every n_chips >= 0 and every model, the empty one included; a
\* call that fails on the chip budget fails before the extra chip exists.
C2_ChipsWithinBudget ==
    strategy \in {"Greedy", "GreedyComms"} => Len(board.chips) <= n_chips

\* C3: with a chip budget n_chips >= 1, no chip ever holds more than
\* cores_per_chip cores (128 under RoundRobin), in any state of any strategy.
\* Stated for cores_per_chip >= 1.
C3_ChipWithinCapacity ==
    (n_chips >= 1 /\ cores_per_chip >= 1) =>
        \A c \in 1 .. Len(board.chips) : Len(board.chips[c]) <= cores_per_chip

\* C4: a model with a block of more than 1024 compartments never gets a
\* Board: the call fails, with the capacity error and no other, and no core
\* is created for that block. Stated for n_chips >= 1 and cores_per_chip >= 1.
C4_OversizedAlwaysCapacityError ==
    (n_chips >= 1 /\ cores_per_chip >= 1 /\ \E k \in BlockIdxs : Oversized(k)) =>
        /\ pc # "done"
        /\ pc = "failed" => error = "ValidationError"
        /\ \A k \in BlockIdxs : Oversized(k) => SlotsOf(k) = {}

\* C5: Greedy places the blocks in input order: the cores of the board, read
\* chip by chip, hold blocks 0, 1, 2, ... in that order; a chip is used only
\* once the chip before it holds exactly cores_per_chip cores; and, for
\* cores_per_chip >= 1, block t is on chip t \div cores_per_chip, at position
\* t % cores_per_chip of that chip.
C5_GreedyInputOrder ==
    strategy = "Greedy" =>
        /\ {CoreAt(sl).blocks[1] : sl \in CoreSlots} = 0 .. Cardinality(CoreSlots) - 1
        /\ \A s1, s2 \in CoreSlots :
              (s1[1] < s2[1] \/ (s1[1] = s2[1] /\ s1[2] < s2[2]))
                  => CoreAt(s1).blocks[1] < CoreAt(s2).blocks[1]
        /\ \A c \in 2 .. Len(board.chips) :
              Len(board.chips[c]) > 0 => Len(board.chips[c - 1]) = cores_per_chip
        /\ cores_per_chip >= 1 =>
              \A sl \in CoreSlots :
                  LET t == CoreAt(sl).blocks[1]
                  IN /\ sl[1] = t \div cores_per_chip
                     /\ sl[2] = (t % cores_per_chip) + 1

C5_Witness ==
    /\ strategy = "Greedy" /\ pc = "done"
    /\ cores_per_chip = 2
    /\ Len(board.chips) = 2
    /\ Len(board.chips[1]) = 2 /\ Len(board.chips[2]) = 1

\* C6: a Greedy allocation of B blocks that succeeds returns a Board of
\* ceiling(B / cores_per_chip) chips, for every B >= 0 and cores_per_chip in
\* 1..128.
C6_GreedyChipCount ==
    (strategy = "Greedy" /\ pc = "done" /\ cores_per_chip >= 1) =>
        Len(board.chips) = (NBlocks + cores_per_chip - 1) \div cores_per_chip

\* C7: under RoundRobin with n_chips = k >= 1, block t of model.blocks (the
\* inputs not counted) is on chip t mod k, and the returned Board has exactly
\* min(m, k) chips for m blocks, none of them without a core; the call fails
\* only on a block that is too large.
C7_RoundRobinModulo ==
    (strategy = "RoundRobin" /\ n_chips >= 1) =>
        /\ \A sl \in CoreSlots : sl[1] = CoreAt(sl).blocks[1] % n_chips
        /\ pc = "failed" =>
              (error = "ValidationError" /\ \E k \in BlockIdxs : Oversized(k))
        /\ pc = "done" =>
              /\ Len(board.chips) = Min2(NBlocks, n_chips)
              /\ \A c \in 1 .. Len(board.chips) : Len(board.chips[c]) > 0
              /\ \A k \in BlockIdxs : SlotsOf(k) # {}

C7_Witness ==
    /\ strategy = "RoundRobin" /\ pc = "done"
    /\ model.inputs >= 1
    /\ n_chips = 2 /\ NBlocks = 3
    /\ Len(board.chips[1]) = 2

\* C8: whenever GreedyComms starts a new chip while some unallocated block is
\* a no-pre block, the block it places first on the new chip is a no-pre
\* block; another block seeds a chip only when no no-pre block is left.
C8_SeedIsNoPre ==
    [][(/\ strategy = "GreedyComms" /\ pc = "blocks"
        /\ Len(board'.chips) > Len(board.chips)
        /\ Len(board'.chips[Len(board'.chips)]) = 1
        /\ \E j \in unallocated_blocks : IsNoPre(j))
       => IsNoPre(board'.chips[Len(board'.chips)][1].blocks[1])]_vars

\* a second chip was just seeded with a no-pre block while a block with a
\* smaller index, which has a pre block, was still unallocated
C8_Witness ==
    /\ strategy = "GreedyComms" /\ pc = "blocks"
    /\ Len(board.chips) = 2 /\ Len(board.chips[2]) = 1
    /\ IsNoPre(board.chips[2][1].blocks[1])
    /\ \E j \in unallocated_blocks :
          j < board.chips[2][1].blocks[1] /\ ~IsNoPre(j)

(* ====================== properties of the deduplicators ================= *)
\* the elements of the core: <<b, n>> for compartment n of block b, <<0, n>>
\* for synapse n when it learns
CfgElems ==
    IF core.kind = "compartment"
    THEN UNION {{<<b, n>> : n \in 1 .. core.blocks[b].compartment.n_compartments} :
                   b \in DOMAIN core.blocks}
    ELSE {<<0, n>> : n \in {q \in DOMAIN core.synapses : core.synapses[q].learning}}

\* the raw record of an element
RawCfg(e) ==
    IF core.kind = "compartment"
    THEN [decay_u |-> core.blocks[e[1]].compartment.decay_u[e[2]],
          decay_v |-> core.blocks[e[1]].compartment.decay_v[e[2]],
          refract_delay |-> core.blocks[e[1]].compartment.refract_delay[e[2]],
          enable_noise |-> core.blocks[e[1]].compartment.enable_noise[e[2]]]
    ELSE [tau |-> core.synapses[e[2]].tracing_tau,
          spike_int |-> core.synapses[e[2]].tracing_mag \div 256,
          spike_frac |-> (core.synapses[e[2]].tracing_mag % 256) \div 2]

\* the slot an index mapping gives an element, counted from 0
SlotOf(idxs, e) == IF core.kind = "compartment" THEN idxs[e[1]][e[2]] ELSE Val(idxs[e[2]])

\* C9: the config list holds each of the K distinct raw records of the core
\* once and nothing else; the index mapping has one entry per element, each
\* entry a slot in 0..K-1 whose record equals the element's raw record; a
\* synapse that does not learn maps to None; and a second run on the same
\* core selects an equal record for every element.
C9_Dedup ==
    pc \in {"cfg_once", "cfg_twice"} =>
        LET K == Cardinality({RawCfg(e) : e \in CfgElems})
        IN /\ Len(cfgs) = K
           /\ \A x, y \in DOMAIN cfgs : x # y => cfgs[x] # cfgs[y]
           /\ IF core.kind = "compartment"
              THEN /\ DOMAIN cfg_idxs = DOMAIN core.blocks
                   /\ \A b \in DOMAIN core.blocks :
                         Len(cfg_idxs[b]) = core.blocks[b].compartment.n_compartments
              ELSE /\ Len(cfg_idxs) = Len(core.synapses)
                   /\ \A n \in DOMAIN core.synapses :
                         (cfg_idxs[n] = Nothing) <=> ~core.synapses[n].learning
           /\ \A e \in CfgElems :
                 /\ SlotOf(cfg_idxs, e) \in 0 .. K - 1
                 /\ cfgs[SlotOf(cfg_idxs, e) + 1] = RawCfg(e)
           /\ pc = "cfg_twice" =>
                 \A e \in CfgElems :
                     prev_cfgs[SlotOf(prev_cfg_idxs, e) + 1] = cfgs[SlotOf(cfg_idxs, e) + 1]

\* a core of two blocks and three compartments with two distinct records,
\* deduplicated twice with the list in two different orders
C9_Witness ==
    /\ pc = "cfg_twice"
    /\ core.kind = "compartment"
    /\ Len(core.blocks) = 2
    /\ Cardinality(CfgElems) = 3
    /\ Len(cfgs) = 2
    /\ prev_cfgs # cfgs

(* =================== properties of compute_block_conns ================== *)
Owns(j, syn) == syn \in Range(Block(j).synapses)

\* the sum of n_axons over the axons of block a, from number p on, whose
\* target is a synapse of block j
RECURSIVE NAxonsTo(_, _, _)
NAxonsTo(a, j, p) ==
    IF p > Len(Block(a).axons) THEN 0
    ELSE (IF Owns(j, Block(a).axons[p].target) THEN Block(a).axons[p].n_axons ELSE 0)
         + NAxonsTo(a, j, p + 1)

SynapseOwnedTwice ==
    \E syn \in UNION {Range(Block(k).synapses) : k \in BlockIdxs} :
        \/ \E k1, k2 \in BlockIdxs : k1 # k2 /\ Owns(k1, syn) /\ Owns(k2, syn)
        \/ \E k \in BlockIdxs : \E p, q \in DOMAIN Block(k).synapses :
              p # q /\ Block(k).synapses[p] = syn /\ Block(k).synapses[q] = syn

\* C10: without rate data and with every synapse owned by one block, the
\* call returns a mapping in which j is under i exactly when i # j and an
\* axon of block i has its target among the synapses of block j; the weight
\* is the float 1e-16 + (sum of n_axons of these axons), the 1e-16 added once
\* for the pair: 1e-16 when the sum is 0 and the sum itself (to which a
\* float64 rounds) when it is at least 1, so it is above 0; no block is
\* under itself.
C10_BlockConns ==
    /\ pc = "failed" => SynapseOwnedTwice
    /\ pc = "conns_done" =>
          /\ DOMAIN block_conns = BlockIdxs
          /\ \A a \in BlockIdxs :
                /\ DOMAIN block_conns[a] =
                      {j \in BlockIdxs \ {a} :
                          \E p \in DOMAIN Block(a).axons : Owns(j, Block(a).axons[p].target)}
                /\ a \notin DOMAIN block_conns[a]
                /\ \A j \in DOMAIN block_conns[a] :
                      /\ block_conns[a][j] =
                            IF NAxonsTo(a, j, 1) >= 1 THEN <<NAxonsTo(a, j, 1), 0>>
                            ELSE <<0, 1>>
                      /\ block_conns[a][j][1] > 0 \/ block_conns[a][j][2] > 0

\* two axons of n_axons = 0 from one block to two synapses of another: the
\* weight is 1e-16 once
C10_Witness ==
    /\ pc = "conns_done"
    /\ \E a, j \in BlockIdxs :
          /\ a # j
          /\ Len(Block(a).axons) = 2
          /\ Block(a).axons[1].target # Block(a).axons[2].target
          /\ \A p \in 1 .. 2 : Owns(j, Block(a).axons[p].target)
                               /\ Block(a).axons[p].n_axons = 0
          /\ block_conns[a][j] = Epsilon

(* ================ properties of the choice of GreedyComms =============== *)
\* the traffic from block a to block j: nothing without an axon of a into a
\* synapse of j (or for a = j); else the float 1e-16 + (sum of n_axons), or
\* 1e-16 when the rates given are all zero
Traffic(a, j) ==
    IF a = j \/ ~ \E p \in DOMAIN Block(a).axons : Owns(j, Block(a).axons[p].target)
    THEN <<0, 0>>
    ELSE IF block_rates = Nothing /\ NAxonsTo(a, j, 1) >= 1
    THEN <<NAxonsTo(a, j, 1), 0>>
    ELSE <<0, 1>>

Larger(w, x) == w[1] > x[1] \/ (w[1] = x[1] /\ w[2] > x[2])

\* the blocks on the chip numbered c (from 0)
OnChip(c) == {board.chips[c + 1][q].blocks[1] : q \in DOMAIN board.chips[c + 1]}

\* the larger of the traffic between a and j in the two directions
PairAffinity(a, j) ==
    IF Larger(Traffic(j, a), Traffic(a, j)) THEN Traffic(j, a) ELSE Traffic(a, j)

\* block j has at least the affinity w to some block on chip c
AffinityAtLeast(c, j, w) == \E a \in OnChip(c) : ~Larger(w, PairAffinity(a, j))

\* C11: when the current chip of GreedyComms has room and some unallocated
\* block has traffic to or from a block on it, the block placed next is an
\* unallocated block whose affinity to the chip (the largest, over the blocks
\* i on the chip, of max(traffic(i -> j), traffic(j -> i))) no unallocated
\* block exceeds, and it goes on the current chip, no chip being started; so
\* a returned Board for two blocks joined by an axon has them on one chip
\* when cores_per_chip >= 2 and on two chips when cores_per_chip = 1.
C11_MaxAffinityNext ==
    [][/\ (/\ strategy = "GreedyComms" /\ pc = "blocks"
           /\ chip # Nothing
           /\ Len(board.chips[Len(board.chips)]) < cores_per_chip
           /\ \E x \in unallocated_blocks : \E a \in OnChip(Len(board.chips) - 1) :
                 Larger(PairAffinity(a, x), <<0, 0>>)
           /\ unallocated_blocks' # unallocated_blocks)
          => /\ Len(board'.chips) = Len(board.chips)
             /\ \E j \in unallocated_blocks :
                   /\ unallocated_blocks' = unallocated_blocks \ {j}
                   /\ LET cur == board'.chips[Len(board.chips)]
                      IN /\ Len(cur) = Len(board.chips[Len(board.chips)]) + 1
                         /\ cur[Len(cur)].blocks = <<j>>
                   /\ \A x \in unallocated_blocks : \A a \in OnChip(Len(board.chips) - 1) :
                         AffinityAtLeast(Len(board.chips) - 1, j, PairAffinity(a, x))
       /\ (/\ strategy = "GreedyComms" /\ pc' = "done"
           /\ NBlocks = 2
           /\ Larger(PairAffinity(0, 1), <<0, 0>>))
          => /\ cores_per_chip >= 2 => Len(board'.chips) = 1
             /\ cores_per_chip = 1 =>
                   (Len(board'.chips) = 2 /\ \A c \in 1 .. 2 : Len(board'.chips[c]) = 1)
      ]_vars

\* a chip with room for two or more holds two blocks, the second taken for
\* its larger traffic with the first, while a block with smaller, nonzero
\* traffic with the first waits
C11_Witness ==
    /\ strategy = "GreedyComms" /\ pc = "blocks"
    /\ cores_per_chip >= 2
    /\ Len(board.chips) = 1 /\ Len(board.chips[1]) = 2
    /\ \E x \in unallocated_blocks :
          LET a == board.chips[1][1].blocks[1]
              j == board.chips[1][2].blocks[1]
          IN /\ Larger(PairAffinity(a, x), <<0, 0>>)
             /\ Larger(PairAffinity(a, j), PairAffinity(a, x))

====
